---- MODULE Spec2Model ----
(***************************************************************************)
(* Model of the merge/upsert synchronisation of pick5_scraper.py: one run  *)
(* of merge_staging_into_lines (legacy cleanup, purge, index, per-game     *)
(* decision, batch write) against the "Lines" worksheet.                   *)
(*                                                                         *)
(* Representation.                                                         *)
(*  - A cell is a text: a sequence of tokens; the empty cell "" is <<>>.   *)
(*  - A row is a sequence of cells, column A at index 1 ... R at index 18. *)
(*    The code indexes rows from 0: Cell0(row, i) reads row[i] of the code.*)
(*  - An instant is a number of minutes since Monday 2025-09-08 00:00 in   *)
(*    TIMEZONE, up to 2026-01-31. Every run and every scraped date lies in *)
(*    September 2025, so the year inference of parse_kickoff_local never   *)
(*    leaves the current year.                                             *)
(*  - An optional datetime is <<>> (None) or <<t>>.                        *)
(***************************************************************************)
EXTENDS Integers, Sequences, FiniteSets, TLC

VARIABLES
  ledger,    \* rows of worksheet "Lines" as get_all_values returns them; ledger[1] is the header
  clock,     \* datetime.now(tz) of the latest run (runs never go back in time)
  league,    \* league argument of the latest run
  staging,   \* scraped games of the latest run, in scrape order (<<>> before the first run)
  queued,    \* the ranges of q_adj of the latest run, the batch handed to values_batch_update
  repeated,  \* the latest run had the league, scraped rows and now of the run before it
  probe,     \* the latest evaluation of the scheduler, the publish gate and the week tag
  pc,        \* position of the run in progress inside merge_staging_into_lines
  job,       \* the local variables of the run in progress
  row_count, \* lines_ws.row_count: the rows of the worksheet's grid
  col_count, \* lines_ws.col_count: the columns of the worksheet's grid
  norm       \* a row list handed to normalize_rows_to_AH and, once it returned, its result

vars == <<ledger, clock, league, staging, queued, repeated, probe, pc, job, row_count, col_count, norm>>

(***************************************************************************)
(* Bounds and input domains                                                *)
(***************************************************************************)
MaxGames == 2

Leagues == {"nfl", "ncaaf"}

\* minutes in a day, and an instant from (day, hour, minute)
DayMinutes == 24 * 60
At(day, hh, mm) == day * DayMinutes + hh * 60 + mm

\* instants at which a run may happen: Tue 00:00, Tue 06:00, Tue 13:00 and Wed 13:00
\* of the week of Sep 8, and Tue 13:00 of the week after
Nows == {At(1, 0, 0), At(1, 6, 0), At(1, 13, 0), At(2, 13, 0), At(8, 13, 0)}

\* scraped texts
DateTexts == { <<"September", "11">> }
TimeTexts == { <<"8:15", "PM">>, <<"TBD">> }
OddsTexts == { [line |-> <<"-3.5">>, ou |-> <<"45.5">>], [line |-> <<"N/A">>, ou |-> <<"N/A">>] }
AwayTeam == <<"Jets">>
HomeTeam == <<"Bills">>

\* one scraped fixture: what the scraper appends as two 8-field rows; a fixture
\* whose time is still to be decided comes without odds ("N/A")
Games == { g \in [date : DateTexts, time : TimeTexts, odds : OddsTexts] :
             g.time = <<"TBD">> => g.odds.line = <<"N/A">> }

GameLists == UNION { [1..n -> Games] : n \in 1..MaxGames }

\* instants at which the scheduler, the publish gate and the week tag are evaluated:
\* 00:00 and 13:00 of the days Monday Sep 8 .. Sep 8 + MaxProbeDay
MaxProbeDay == 14

ProbeInstants == { At(d, h, 0) : d \in 0..MaxProbeDay, h \in {0, 13} }

\* kickoffs at the turn of the year: 13:00 of Monday 2025-12-29 .. Sunday 2026-01-04
YearEndKickoffs == { At(d, 13, 0) : d \in 112..118 }

\* an optional kickoff: None or a datetime
ProbeKickoffs == { <<>> } \cup { <<t>> : t \in ProbeInstants \cup YearEndKickoffs }

(***************************************************************************)
(* Cells and rows                                                          *)
(***************************************************************************)
Blank == <<>>

Cell0(row, i) == row[i + 1]

BlankRow(n) == [i \in 1..n |-> Blank]

IsBlankRow(row) == \A i \in 1..Len(row) : row[i] = Blank

HEADER_AH == << <<"Logo">>, <<"Team">>, <<"Pick #">>, <<"Line">>, <<"Pick #">>, <<"O/U">>,
                <<"Date">>, <<"Time">> >>

HEADER_IR == << <<"League">>, <<"WeekTag">>, <<"Phase">>, <<"GameKey">>, <<"KickoffLocal">>,
                <<"ReleaseAt">>, <<"FreezeAt">>, <<"Locked">>, <<"Status">>, <<"LastUpdated">> >>

SPACER_ROWS_BETWEEN_LEAGUES == 4

TEST_MODE_IGNORE_LOCKS == FALSE

PHASE_NFL == "regular"
PHASE_CFB == "regular"

\* (r + [""] * n)[:n]
PadTo(row, n) == IF Len(row) >= n THEN SubSeq(row, 1, n) ELSE row \o BlankRow(n - Len(row))

Max(S) == CHOOSE m \in S : \A x \in S : x <= m

\* F applied to the value of x, x evaluated once: an assignment "v = x" followed by
\* the statements F that read v
Bind(x, F(_)) == CHOOSE y \in { F(v) : v \in {x} } : TRUE

(***************************************************************************)
(* Time                                                                    *)
(***************************************************************************)
\* datetime.weekday(): Mon=0 .. Sun=6
weekday(t) == (t \div DayMinutes) % 7

\* datetime.date() as a day number, and strftime("%Y-%m-%d") as <<year, month, day>>:
\* day 0 is 2025-09-08, day 22 is 2025-09-30, day 114 is 2025-12-31
DayOf(t) == t \div DayMinutes
Ymd(day) ==
  IF day <= 22 THEN <<2025, 9, 8 + day>>
  ELSE IF day <= 53 THEN <<2025, 10, day - 22>>
  ELSE IF day <= 83 THEN <<2025, 11, day - 53>>
  ELSE IF day <= 114 THEN <<2025, 12, day - 83>>
  ELSE <<2026, 1, day - 114>>

\* the day number of a date <<year, month, day>>
DayIndex(ymd) ==
  CASE ymd[2] = 9 -> ymd[3] - 8
    [] ymd[2] = 10 -> ymd[3] + 22
    [] ymd[2] = 11 -> ymd[3] + 53
    [] ymd[2] = 12 -> ymd[3] + 83
    [] OTHER -> ymd[3] + 114

\* datetime.year
Year(t) == Ymd(DayOf(t))[1]

\* isocalendar().week: Monday 2025-09-08 opens ISO week 37 of 2025, Monday 2025-12-22
\* its last week 52, and Monday 2025-12-29 (day 112) opens ISO week 1 of 2026
IsoWeek(t) ==
  IF DayOf(t) < 112 THEN 37 + (DayOf(t) \div 7) ELSE 1 + ((DayOf(t) - 112) \div 7)

\* fmt(dt): strftime("%Y-%m-%d %H:%M"), "" for None
fmt(dt) == IF dt = <<>> THEN Blank ELSE << Ymd(DayOf(dt[1])), dt[1] % DayMinutes >>

\* parse_kick(s): strptime(s, "%Y-%m-%d %H:%M"); a text that is not exactly a date
\* and a time of day (a blank cell, a game key, a team name) raises and gives None
parse_kick(s) ==
  IF Len(s) = 2 THEN << DayIndex(s[1]) * DayMinutes + s[2] >> ELSE <<>>

(***************************************************************************)
(* Kickoff parser, scheduler, week tag, key, publish gate                  *)
(***************************************************************************)
\* the non-time sentinels of parse_kickoff_local, upper-cased
TimeSentinels == {"TBD", "N/A", "-", "POSTPONED"}

\* "%B": month name to number (the model's dates are all in September)
MonthNum(m) == CASE m = "September" -> 9 [] OTHER -> 0

\* int(m.group(2)) of the day token
DayNum(d) == CASE d = "11" -> 11 [] d = "14" -> 14 [] d = "15" -> 15 [] OTHER -> 0

\* "%I:%M" with AM/PM to minutes after midnight
ClockMinutes(hm, ap) ==
  CASE hm = "8:15" /\ ap = "PM" -> 20 * 60 + 15
    [] hm = "1:00" /\ ap = "PM" -> 13 * 60
    [] OTHER -> 0

parse_kickoff_local(date_text, time_text) ==
  IF date_text = Blank \/ time_text = Blank THEN <<>>
  ELSE IF Len(time_text) = 1 /\ time_text[1] \in TimeSentinels THEN <<>>
  ELSE IF Len(date_text) < 2 \/ MonthNum(date_text[1]) = 0 \/ DayNum(date_text[2]) = 0 THEN <<>>
  ELSE IF Len(time_text) < 2 \/ time_text[2] \notin {"AM", "PM"} THEN <<>>
  ELSE << (DayNum(date_text[2]) - 8) * DayMinutes + ClockMinutes(time_text[1], time_text[2]) >>

\* Monday 00:00 of the week of instant t
MondayOf(t) == (DayOf(t) - weekday(t)) * DayMinutes

\* a scheduler that sends only a Thursday kickoff to the Tuesday
ReleaseDayThursdayOnly(dow) == IF dow = 3 THEN 1 ELSE 3

\* the day of release and freeze, counted from the Monday of the kickoff's week:
\* Tuesday for a Thursday or Friday kickoff, Thursday for any other
ReleaseDay(dow) == IF dow \in {3, 4} THEN 1 ELSE 3

\* a release at 12:00 and a freeze at 00:01
ReleaseAfterFreeze(day0) == << <<day0 + 12 * 60>>, <<day0 + 1>> >>

\* rel = 00:01 and frz = 12:00 of the day that starts at instant day0
ReleaseFreezeOn(day0) == << <<day0 + 1>>, <<day0 + 12 * 60>> >>

\* returns <<release_at, freeze_at>>
compute_release_freeze(kickoff_dt) ==
  IF kickoff_dt = <<>> THEN << <<>>, <<>> >>
  ELSE LET dow == weekday(kickoff_dt[1])
           monday == MondayOf(kickoff_dt[1])
       IN  ReleaseFreezeOn(monday + ReleaseDay(dow) * DayMinutes)

\* NFL_WEEK / CFB_WEEK are None unless overridden: week_tag_explicit returns None
NFL_WEEK == <<>>
CFB_WEEK == <<>>

week_tag_explicit(lg, kickoff_dt, now) ==
  LET yr == Year(IF kickoff_dt = <<>> THEN now ELSE kickoff_dt[1])
  IN  IF lg = "ncaaf" /\ CFB_WEEK # <<>> THEN <<yr, "CFB", CFB_WEEK[1]>>
      ELSE IF lg = "nfl" /\ NFL_WEEK # <<>> THEN <<yr, "NFL", NFL_WEEK[1]>>
      ELSE <<>>

\* f"{year}-{league_tag}-Wk{wk}"; an unknown kickoff takes the week of now
compute_week_tag(kickoff_dt, lg, phase, now) ==
  LET league_tag == IF lg = "nfl" THEN "NFL" ELSE "CFB"
      year == Year(IF kickoff_dt = <<>> THEN now ELSE kickoff_dt[1])
  IN  IF phase \in {"playoffs", "bowls"} THEN <<year, league_tag, phase>>
      ELSE <<year, league_tag, IsoWeek(IF kickoff_dt = <<>> THEN now ELSE kickoff_dt[1])>>

\* week_tag_explicit(league, kickoff_dt) or compute_week_tag(kickoff_dt, league, phase)
week_tag(kickoff_dt, lg, phase, now) ==
  LET explicit == week_tag_explicit(lg, kickoff_dt, now)
  IN  IF explicit # <<>> THEN explicit ELSE compute_week_tag(kickoff_dt, lg, phase, now)

\* a leading ranking token ("7 Jets") and upper-casing
RankTokens == {"1", "7", "12", "25"}
Upper(tok) == CASE tok = "Jets" -> "JETS" [] tok = "Bills" -> "BILLS" [] OTHER -> tok

normalize_team_for_key(name) ==
  LET s == IF Len(name) > 1 /\ name[1] \in RankTokens THEN Tail(name) ELSE name
  IN  [i \in 1..Len(s) |-> Upper(s[i])]

\* f"{dt_part}|{away}|{home}" (espn_game_id is always None at the call site)
make_game_key(kickoff_dt, away_name_display, home_name_display) ==
  LET dt_part == IF kickoff_dt = <<>> THEN <<0, 0, 0>> ELSE Ymd(DayOf(kickoff_dt[1]))
  IN  <<dt_part, "|">> \o normalize_team_for_key(away_name_display)
        \o <<"|">> \o normalize_team_for_key(home_name_display)

\* a Thursday window that ends on the Sunday
ThursdayWindowToSunday(week_mon) == <<week_mon + 5, week_mon + 6>>

\* start = week_mon + 5 days (Sat), end = week_mon + 7 days (Mon of the next week)
ThursdayWindow(week_mon) == <<week_mon + 5, week_mon + 7>>

publish_window_allows(now_dt, kickoff_dt) ==
  IF kickoff_dt = <<>> THEN TRUE
  ELSE LET kdate == DayOf(kickoff_dt[1])
           week_mon == DayOf(now_dt) - weekday(now_dt)
       IN  IF weekday(now_dt) = 1 THEN week_mon + 3 <= kdate /\ kdate <= week_mon + 4
           ELSE IF weekday(now_dt) = 3
                THEN ThursdayWindow(week_mon)[1] <= kdate /\ kdate <= ThursdayWindow(week_mon)[2]
           ELSE FALSE

(***************************************************************************)
(* The per-game values of merge_staging_into_lines: kickoff, release and   *)
(* freeze, week tag, key, and the window and time gates                    *)
(***************************************************************************)
\* if window_ok and release_at and now >= release_at
gate_posted(window_ok, release, now) ==
  window_ok /\ release # <<>> /\ now >= release[1]

\* if window_ok and freeze_at and now >= freeze_at
gate_locked(window_ok, freeze, now) ==
  window_ok /\ freeze # <<>> /\ now >= freeze[1]

locked_flag(window_ok, freeze, now) ==
  IF gate_locked(window_ok, freeze, now) THEN "Y" ELSE "N"

status(window_ok, release, freeze, now) ==
  IF gate_locked(window_ok, freeze, now) THEN "locked"
  ELSE IF gate_posted(window_ok, release, now) THEN "posted"
  ELSE "placeholder"

allow_lines(window_ok, release, freeze, now) ==
  gate_posted(window_ok, release, now) \/ gate_locked(window_ok, freeze, now)

\* what the loop body computes for a game before it looks at the index
GameValues(date_text, time_text, away_team_disp, home_team_disp, lg, phase, now) ==
  LET kickoff_dt == parse_kickoff_local(date_text, time_text)
      rf == compute_release_freeze(kickoff_dt)
      window_ok == publish_window_allows(now, kickoff_dt)
  IN  [kickoff_dt |-> kickoff_dt,
       release_at |-> rf[1],
       freeze_at |-> rf[2],
       week_tag |-> week_tag(kickoff_dt, lg, phase, now),
       game_key |-> make_game_key(kickoff_dt, away_team_disp, home_team_disp),
       window_ok |-> window_ok,
       locked_flag |-> locked_flag(window_ok, rf[2], now),
       status |-> status(window_ok, rf[1], rf[2], now),
       allow_lines |-> allow_lines(window_ok, rf[1], rf[2], now)]

(***************************************************************************)
(* Input normalisation and packing                                         *)
(***************************************************************************)
\* the two 8-field rows the scraper appends for a game (scrape_*_schedule)
ScrapedRows(g) ==
  << << <<"logo", "Jets">>, AwayTeam, Blank, g.odds.line, Blank, g.odds.ou, g.date, g.time >>,
     << <<"logo", "Bills">>, HomeTeam, Blank, g.odds.line, Blank, g.odds.ou, g.date, g.time >> >>

RECURSIVE FlatRows(_)
FlatRows(games) ==
  IF games = <<>> THEN <<>> ELSE ScrapedRows(Head(games)) \o FlatRows(Tail(games))

\* "AM" in str(r[3]).upper() or "PM" in str(r[3]).upper()
HasMeridiem(cell) == \E i \in 1..Len(cell) : cell[i] \in {"AM", "PM"}

\* a field that is None, and a text of one blank
NoneCell == <<"None">>
Space == <<" ">>

\* r[-1] is None or str(r[-1]).strip() == ""
IsNoneOrBlank(cell) == cell = NoneCell \/ \A i \in 1..Len(cell) : cell[i] = " "

RECURSIVE TrimBlankTail(_)
TrimBlankTail(r) ==
  IF Len(r) > 8 /\ IsNoneOrBlank(r[Len(r)])
  THEN TrimBlankTail(SubSeq(r, 1, Len(r) - 1))
  ELSE r

\* a remap that keeps the six fields where they are
Remap6InPlace(r) == << r[1], r[2], r[3], r[4], r[5], r[6], Blank, Blank >>

Remap6(r) == << r[1], r[2], Blank, r[5], Blank, r[6], r[3], r[4] >>

normalize_row(row) ==
  LET r == TrimBlankTail(row)
  IN  IF Len(r) = 8 THEN r
      ELSE IF Len(r) = 6 THEN Remap6(r)
      ELSE IF Len(r) >= 6 /\ HasMeridiem(Cell0(r, 3)) THEN Remap6(r)
      ELSE PadTo(r, 8)

normalize_rows_to_AH(rows) == [i \in 1..Len(rows) |-> normalize_row(rows[i])]

\* "if r is None: continue" over a list whose items are None, <<>>, or a row r, <<r>>
IsRow(item) == item # <<>>
SkipNone(items) == [i \in 1..Len(SelectSeq(items, IsRow)) |-> SelectSeq(items, IsRow)[i][1]]

pack_pairs_to_games(row_pairs) ==
  [n \in 1..(Len(row_pairs) \div 2) |->
     LET away == row_pairs[2 * n - 1]
         home == row_pairs[2 * n]
     IN  [away_row |-> away, home_row |-> home,
          away_team_disp |-> Cell0(away, 1), home_team_disp |-> Cell0(home, 1),
          date_text |-> Cell0(away, 6), time_text |-> Cell0(away, 7)]]

(***************************************************************************)
(* The worksheet                                                           *)
(***************************************************************************)
\* get_all_values(): the rows up to the last row that holds data
RECURSIVE get_all_values(_)
get_all_values(grid) ==
  IF grid # <<>> /\ IsBlankRow(grid[Len(grid)])
  THEN get_all_values(SubSeq(grid, 1, Len(grid) - 1))
  ELSE grid

\* delete_rows(s, e): rows s..e go, the rows below move up
delete_rows(grid, s, e) == SubSeq(grid, 1, s - 1) \o SubSeq(grid, e + 1, Len(grid))

\* pair tops 2, 4, ... of range(2, len(vals) + 1, 2), ascending
PairTops(vals) == { r \in 2..Len(vals) : r % 2 = 0 }

RECURSIVE Ascending(_)
Ascending(S) ==
  IF S = {} THEN <<>>
  ELSE LET m == CHOOSE x \in S : \A y \in S : x <= y IN <<m>> \o Ascending(S \ {m})

\* group ascending pair tops into contiguous runs <<start, prev>>: the top of the
\* first and of the last pair of each run
RECURSIVE GroupFrom(_, _, _, _, _)
GroupFrom(tops, i, start, prev, runs) ==
  IF i > Len(tops) THEN Append(runs, <<start, prev>>)
  ELSE IF tops[i] = prev + 2 THEN GroupFrom(tops, i + 1, start, tops[i], runs)
  ELSE GroupFrom(tops, i + 1, tops[i], tops[i], Append(runs, <<start, prev>>))

GroupRuns(tops) ==
  IF tops = <<>> THEN <<>> ELSE GroupFrom(tops, 2, tops[1], tops[1], <<>>)

\* for s, e in reversed(blocks): delete_rows(s, e)
RECURSIVE DeleteBottomUp(_, _, _)
DeleteBottomUp(grid, blocks, i) ==
  IF i = 0 THEN grid
  ELSE DeleteBottomUp(delete_rows(grid, blocks[i][1], blocks[i][2]), blocks, i - 1)

(***************************************************************************)
(* _cleanup_legacy_misaligned_rows                                         *)
(***************************************************************************)
\* blocks.append((start, prev+1)): a block includes the second row of its last pair
CleanupBlock(run) == <<run[1], run[2] + 1>>

bad_tops(vals) ==
  { r \in PairTops(vals) :
      Len(vals[r]) >= 7 /\ Cell0(vals[r], 6) \in { <<"ncaaf">>, <<"nfl">> } }

_cleanup_legacy_misaligned_rows(grid) ==
  Bind(get_all_values(grid), LAMBDA vals :
    IF Len(vals) < 2 THEN grid
    ELSE Bind(Ascending(bad_tops(vals)), LAMBDA tops :
      IF tops = <<>> THEN grid
      ELSE Bind(GroupRuns(tops), LAMBDA runs :
        DeleteBottomUp(grid, [i \in 1..Len(runs) |-> CleanupBlock(runs[i])], Len(runs)))))

(***************************************************************************)
(* _purge_lines_to_current_week                                            *)
(***************************************************************************)
COL_KICK == 12

_football_week_monday(dt) == MondayOf(dt)

\* a block that ends on the top row of its last pair
PurgeBlockToLastTop(run) == <<run[1], run[2]>>

\* blocks.append((start, prev + 1))
PurgeBlock(run) == <<run[1], run[2] + 1>>

\* the cell one column to the right, column M (KickoffLocal)
KickCellOfColumnM(row_top) == Cell0(row_top, COL_KICK)

\* row_top[COL_KICK - 1]: with rows indexed from 0 this is column L (GameKey)
KickCell(row_top) == Cell0(row_top, COL_KICK - 1)

to_delete_tops(vals, now_dt) ==
  LET week_start == _football_week_monday(now_dt)
      week_end == week_start + 7 * DayMinutes
  IN  { top \in PairTops(vals) :
          \/ Len(vals[top]) < COL_KICK
          \/ LET k == parse_kick(KickCell(vals[top]))
             IN  k = <<>> \/ ~(week_start <= k[1] /\ k[1] < week_end) }

_purge_lines_to_current_week(grid, now_dt) ==
  Bind(get_all_values(grid), LAMBDA vals :
    IF Len(vals) < 2 THEN grid
    ELSE Bind(Ascending(to_delete_tops(vals, now_dt)), LAMBDA tops :
      IF tops = <<>> THEN grid
      ELSE Bind(GroupRuns(tops), LAMBDA runs :
        DeleteBottomUp(grid, [i \in 1..Len(runs) |-> PurgeBlock(runs[i])], Len(runs)))))

(***************************************************************************)
(* Queued ranges and the batch write                                       *)
(***************************************************************************)
\* a queued item is [range |-> <<first row, last row>> of columns A..R,
\*                   values |-> <<away row, home row>>,
\*                   kind |-> "new" (touched_new) or "upd" (touched_upd)]
queue_pair_range(top_row, full_away, full_home, kind) ==
  [range |-> <<top_row, top_row + 1>>,
   values |-> <<PadTo(full_away, 18), PadTo(full_home, 18)>>,
   kind |-> kind]

\* an odd top moves the pair down one row
AlignItem(item) ==
  IF item.range[1] % 2 = 1
  THEN [item EXCEPT !.range = <<item.range[1] + 1, item.range[2] + 1>>]
  ELSE item

_normalize_pair_alignment(queued_ranges) ==
  [i \in 1..Len(queued_ranges) |-> AlignItem(queued_ranges[i])]

compute_max_row_needed(queued_ranges) ==
  IF queued_ranges = <<>> THEN 0
  ELSE Max({ queued_ranges[i].range[2] : i \in 1..Len(queued_ranges) })

\* one ValueRange of values_batch_update: the rows of the range take the values
WriteRange(grid, item) ==
  LET first == item.range[1]
      last == item.range[2]
      above == IF Len(grid) >= first - 1 THEN SubSeq(grid, 1, first - 1)
               ELSE grid \o [r \in 1..(first - 1 - Len(grid)) |-> BlankRow(18)]
  IN  above \o item.values \o SubSeq(grid, last + 1, Len(grid))

\* values_batch_update(body): the ranges are applied in the order of the data list
RECURSIVE values_batch_update(_, _, _)
values_batch_update(grid, data, i) ==
  IF i > Len(data) THEN grid
  ELSE Bind(WriteRange(grid, data[i]), LAMBDA written :
         values_batch_update(written, data, i + 1))

\* returns [grid, q_adj]
upsert_lines_strict(grid, queued_ranges) ==
  IF queued_ranges = <<>> THEN [grid |-> grid, q_adj |-> <<>>]
  ELSE Bind(_normalize_pair_alignment(queued_ranges), LAMBDA q_adj :
         [grid |-> values_batch_update(grid, q_adj, 1), q_adj |-> q_adj])

(***************************************************************************)
(* merge_staging_into_lines                                                *)
(***************************************************************************)
ensure_headers(grid) ==
  IF grid = <<>> THEN <<HEADER_AH \o HEADER_IR>>
  ELSE [grid EXCEPT ![1] = HEADER_AH \o HEADER_IR]

\* index[gk] = r over the pair tops of existing; the last pair of a key on the sheet wins
gamekey_col == 12

IndexKeys(existing) ==
  { Cell0(existing[r], gamekey_col - 1) :
      r \in { t \in PairTops(existing) :
                Len(existing[t]) >= gamekey_col /\ Cell0(existing[t], gamekey_col - 1) # Blank } }

BuildIndex(existing) ==
  [gk \in IndexKeys(existing) |->
     Max({ r \in PairTops(existing) :
             Len(existing[r]) >= gamekey_col /\ Cell0(existing[r], gamekey_col - 1) = gk })]

spacer_rows(lg, existing) ==
  IF lg = "ncaaf" /\ Len(existing) > 1 THEN SPACER_ROWS_BETWEEN_LEAGUES ELSE 0

first_append_top(lg, existing) ==
  LET last_row_with_data == IF existing # <<>> THEN Len(existing) ELSE 1
      t1 == last_row_with_data + 1 + spacer_rows(lg, existing)
      t2 == IF t1 < 2 THEN 2 ELSE t1
  IN  IF t2 % 2 = 1 THEN t2 + 1 ELSE t2

\* lines_ws.get_value(f"P{top_row}") inside try/except: None when the call raises
get_locked_cell(grid, top_row, raised) ==
  IF raised \/ top_row > Len(grid) THEN Blank ELSE grid[top_row][16]

IsLockedCell(locked_cell) ==
  (~TEST_MODE_IGNORE_LOCKS) /\ locked_cell # Blank /\ locked_cell \in { <<"Y">>, <<"y">> }

\* a strip that blanks the Line cell only
StripLineOnly(row) == [row EXCEPT ![4] = Blank]

\* a[3] = ""; a[5] = ""  (columns D and F)
StripOdds(row) == [row EXCEPT ![4] = Blank, ![6] = Blank]

\* a normalisation that blanks "N/A" in the Line cell only
BlankNALineOnly(row) == [row EXCEPT ![4] = IF @ = <<"N/A">> THEN Blank ELSE @]

\* if row[3] == "N/A": row[3] = "" ; if row[5] == "N/A": row[5] = ""
BlankNA(row) ==
  [row EXCEPT ![4] = IF @ = <<"N/A">> THEN Blank ELSE @,
              ![6] = IF @ = <<"N/A">> THEN Blank ELSE @]

DisplayRow(row, strip) == IF strip THEN StripOdds(row) ELSE BlankNA(row)

\* the ten metadata cells I..R
meta(lg, phase, now, v) ==
  << <<IF lg = "ncaaf" THEN "ncaaf" ELSE "nfl">>,
     v.week_tag,
     <<phase>>,
     v.game_key,
     fmt(v.kickoff_dt),
     fmt(v.release_at),
     fmt(v.freeze_at),
     <<v.locked_flag>>,
     <<v.status>>,
     fmt(<<now>>) >>

\* an insert that leaves the index as it was
IndexNotUpdated(index, game_key, append_top) == index

\* index[game_key] = append_top
IndexAfterInsert(index, game_key, append_top) == (game_key :> append_top) @@ index

\* one iteration of "for g in games": acc is [index, append_top, queued_ranges, lookups],
\* lookups counting the calls of get_value
MergeGame(acc, g, grid, lg, phase, now, raised) ==
  Bind(GameValues(g.date_text, g.time_text, g.away_team_disp, g.home_team_disp,
                  lg, phase, now), LAMBDA v :
    LET known == v.game_key \in DOMAIN acc.index
        m == meta(lg, phase, now, v)
        full_away == DisplayRow(g.away_row, ~v.allow_lines /\ ~known) \o m
        full_home == DisplayRow(g.home_row, ~v.allow_lines /\ ~known) \o m
    IN  IF ~known
        THEN [index |-> IndexAfterInsert(acc.index, v.game_key, acc.append_top),
              append_top |-> acc.append_top + 2,
              lookups |-> acc.lookups,
              queued_ranges |-> Append(acc.queued_ranges,
                                  queue_pair_range(acc.append_top, full_away, full_home, "new"))]
        ELSE IF IsLockedCell(get_locked_cell(grid, acc.index[v.game_key], raised))
             THEN [acc EXCEPT !.lookups = @ + 1]
        ELSE IF ~v.allow_lines THEN [acc EXCEPT !.lookups = @ + 1]
        ELSE [acc EXCEPT !.lookups = @ + 1,
                         !.queued_ranges =
                Append(@, queue_pair_range(acc.index[v.game_key], full_away, full_home, "upd"))])

RECURSIVE MergeGames(_, _, _, _, _, _, _, _)
MergeGames(acc, games, i, grid, lg, phase, now, raised) ==
  IF i > Len(games) THEN acc
  ELSE Bind(MergeGame(acc, games[i], grid, lg, phase, now, raised), LAMBDA next :
         MergeGames(next, games, i + 1, grid, lg, phase, now, raised))

\* the worksheet after the cleanup and the purge of a run: what merge reads as existing
AfterPurge(grid, now) ==
  Bind(ensure_headers(grid), LAMBDA headed :
    Bind(_cleanup_legacy_misaligned_rows(headed), LAMBDA cleaned :
      _purge_lines_to_current_week(cleaned, now)))

\* returns [grid, q_adj, lookups]: the worksheet after the run, the batch that was
\* written, and the number of get_value calls made
merge_staging_into_lines(grid, rows, lg, phase, now, raised) ==
  Bind(pack_pairs_to_games(normalize_rows_to_AH(rows)), LAMBDA games :
    Bind(AfterPurge(grid, now), LAMBDA purged :
      Bind(get_all_values(purged), LAMBDA existing :
        Bind([index |-> BuildIndex(existing),
              append_top |-> first_append_top(lg, existing),
              queued_ranges |-> <<>>,
              lookups |-> 0], LAMBDA acc0 :
          Bind(MergeGames(acc0, games, 1, purged, lg, phase, now, raised), LAMBDA acc :
            Bind(upsert_lines_strict(purged, acc.queued_ranges), LAMBDA written :
              [grid |-> written.grid, q_adj |-> written.q_adj, lookups |-> acc.lookups]))))))

(***************************************************************************)
(* The state machine: one action per run of a league                       *)
(***************************************************************************)
PhaseOf(lg) == IF lg = "nfl" THEN PHASE_NFL ELSE PHASE_CFB

\* the values the code computes from a kickoff at an instant now
Evaluate(kickoff_dt, now) ==
  [kickoff_dt |-> kickoff_dt,
   now |-> now,
   release_freeze |-> compute_release_freeze(kickoff_dt),
   window_ok |-> publish_window_allows(now, kickoff_dt),
   week_tag |-> [lg \in Leagues |-> week_tag(kickoff_dt, lg, PhaseOf(lg), now)]]

\* spreadsheet.add_worksheet(title="Lines", rows="200", cols="18")
NEW_SHEET_ROWS == 200
NEW_SHEET_COLS == 18

\* no row list has been handed to normalize_rows_to_AH
NoCall == [rows |-> <<>>, returned |-> FALSE, out |-> <<>>]

\* the locals of a run before merge has read the sheet
NoJob ==
  [before |-> <<>>, blocks |-> <<>>, existing |-> <<>>, next |-> 1, q_adj |-> <<>>,
   acc |-> [index |-> <<>>, append_top |-> 2, queued_ranges |-> <<>>, lookups |-> 0]]

Init ==
  /\ ledger = <<HEADER_AH \o HEADER_IR>>
  /\ clock = 0
  /\ league = "nfl"
  /\ staging = <<>>
  /\ queued = <<>>
  /\ repeated = FALSE
  /\ probe = Evaluate(<<>>, 0)
  /\ pc = "idle"
  /\ job = NoJob
  /\ row_count = NEW_SHEET_ROWS
  /\ col_count = NEW_SHEET_COLS
  /\ norm = NoCall

\* the ranges of a batch, without the values
Ranges(q) == [i \in 1..Len(q) |-> [range |-> q[i].range, kind |-> q[i].kind]]

\* upload_via_staging_and_merge(rows, league, phase) at instant now; main calls it
\* only with a non-empty row list. A run that calls get_value has two outcomes: the
\* calls return the cell, or they raise and the except clause leaves None.
Run(lg, games, now) ==
  /\ now >= clock
  /\ \E returned \in {merge_staging_into_lines(ledger, FlatRows(games), lg, PhaseOf(lg), now, FALSE)} :
       \E raised \in (IF returned.lookups > 0 THEN BOOLEAN ELSE {FALSE}) :
         \E out \in {IF raised
                     THEN merge_staging_into_lines(ledger, FlatRows(games), lg, PhaseOf(lg), now, TRUE)
                     ELSE returned} :
           /\ ledger' = out.grid
           /\ queued' = Ranges(out.q_adj)
  /\ clock' = now
  /\ league' = lg
  /\ staging' = games
  /\ repeated' = (staging # <<>> /\ lg = league /\ games = staging /\ now = clock)
  /\ UNCHANGED <<probe, pc, job, row_count, col_count, norm>>

Next == \E lg \in Leagues, games \in GameLists, now \in Nows : Run(lg, games, now)

Spec == Init /\ [][Next]_vars

\* the time functions on their own: compute_release_freeze, publish_window_allows and
\* the week tag applied to a kickoff and an instant now
Probe(kickoff_dt, now) ==
  /\ probe' = Evaluate(kickoff_dt, now)
  /\ UNCHANGED <<ledger, clock, league, staging, queued, repeated, pc, job, row_count, col_count, norm>>

NextTime == \E kickoff_dt \in ProbeKickoffs, now \in ProbeInstants : Probe(kickoff_dt, now)

SpecTime == Init /\ [][NextTime]_vars

(***************************************************************************)
(* One run step by step: the calls merge_staging_into_lines makes on the   *)
(* sheet, one action per call, and a run that fails or is killed between   *)
(* two calls                                                               *)
(***************************************************************************)
MaxStepGames == 2

\* scraped fixtures of the stepwise runs: two fixtures of the same teams without a
\* kickoff time on different dates, and one with a kickoff and odds
StepGames ==
  { [date |-> <<"September", "11">>, time |-> <<"TBD">>,
     odds |-> [line |-> <<"N/A">>, ou |-> <<"N/A">>]],
    [date |-> <<"September", "14">>, time |-> <<"TBD">>,
     odds |-> [line |-> <<"N/A">>, ou |-> <<"N/A">>]],
    [date |-> <<"September", "11">>, time |-> <<"8:15", "PM">>,
     odds |-> [line |-> <<"-3.5">>, ou |-> <<"45.5">>]] }

StepGameLists == UNION { [1..n -> StepGames] : n \in 1..MaxStepGames }

\* Tue 06:00 and Wed 13:00 of the week of Sep 8
StepNows == {At(1, 6, 0), At(2, 13, 0)}

\* the grid of a worksheet that exists before the first run. Every purge deletes
\* rows and a resize adds only the rows a batch lacks, so run after run the 200 rows
\* of add_worksheet come down to the few rows the entries take; the stepwise runs
\* start from such a grid: the header row alone, or MaxStartRows rows
MaxStartRows == 6
StartRowCounts == {1, MaxStartRows}
StartColCounts == {NEW_SHEET_COLS, 26}

InitSteps ==
  /\ ledger = <<HEADER_AH \o HEADER_IR>>
  /\ clock = 0
  /\ league = "nfl"
  /\ staging = <<>>
  /\ queued = <<>>
  /\ repeated = FALSE
  /\ probe = Evaluate(<<>>, 0)
  /\ pc = "idle"
  /\ job = NoJob
  /\ row_count \in StartRowCounts
  /\ col_count \in StartColCounts
  /\ norm = NoCall

\* the positions at which no run is in progress
Rest == {"idle", "done", "failed"}

\* the blocks _purge_lines_to_current_week computes from vals before it deletes
purge_blocks(vals, now_dt) ==
  IF Len(vals) < 2 THEN <<>>
  ELSE Bind(GroupRuns(Ascending(to_delete_tops(vals, now_dt))), LAMBDA runs :
         [i \in 1..Len(runs) |-> PurgeBlock(runs[i])])

\* a resize to the rows the batch needs
GrowRowsToNeeded(max_row_needed, fresh_rows) == max_row_needed

\* grow_rows = max(max_row_needed, fresh_rows)
grow_rows(max_row_needed, fresh_rows) ==
  IF max_row_needed > fresh_rows THEN max_row_needed ELSE fresh_rows

\* grow_cols = max(18, fresh_cols)
grow_cols(fresh_cols) == IF 18 > fresh_cols THEN 18 ELSE fresh_cols

\* the games merge iterates over
PackedGames(games) == pack_pairs_to_games(normalize_rows_to_AH(FlatRows(games)))

\* merge_staging_into_lines from its start to the point where the purge has read the
\* sheet and chosen its blocks: ensure_headers and the legacy cleanup have acted
Begin(lg, games, now) ==
  /\ pc \in Rest
  /\ now >= clock
  /\ \E cleaned \in {_cleanup_legacy_misaligned_rows(ensure_headers(ledger))} :
       /\ ledger' = cleaned
       /\ row_count' = row_count - (Len(ledger) - Len(cleaned))
       /\ job' = [NoJob EXCEPT !.before = ledger,
                               !.blocks = purge_blocks(get_all_values(cleaned), now)]
  /\ pc' = "purge"
  /\ clock' = now
  /\ league' = lg
  /\ staging' = games
  /\ queued' = <<>>
  /\ repeated' = FALSE
  /\ UNCHANGED <<probe, col_count, norm>>

\* a deletion from the top: the first block left
TopBlock(blocks) == 1

\* reversed(blocks): the next block to delete is the last one left
NextBlock(blocks) == Len(blocks)

\* for s, e in reversed(blocks): lines_ws.delete_rows(s, e), one call
DeleteBlock ==
  /\ pc = "purge"
  /\ job.blocks # <<>>
  /\ \E n \in {NextBlock(job.blocks)} :
       /\ ledger' = delete_rows(ledger, job.blocks[n][1], job.blocks[n][2])
       /\ row_count' = row_count - (job.blocks[n][2] - job.blocks[n][1] + 1)
       /\ job' = [job EXCEPT !.blocks = SubSeq(@, 1, n - 1) \o SubSeq(@, n + 1, Len(@))]
  /\ UNCHANGED <<clock, league, staging, queued, repeated, probe, pc, col_count, norm>>

\* existing = lines_ws.get_all_values(), the index and the first append_top
ReadExisting ==
  /\ pc = "purge"
  /\ job.blocks = <<>>
  /\ \E existing \in {get_all_values(ledger)} :
       job' = [job EXCEPT !.existing = existing,
                          !.acc = [index |-> BuildIndex(existing),
                                   append_top |-> first_append_top(league, existing),
                                   queued_ranges |-> <<>>,
                                   lookups |-> 0]]
  /\ pc' = "loop"
  /\ UNCHANGED <<ledger, clock, league, staging, queued, repeated, probe, row_count, col_count, norm>>

\* one iteration of "for g in games"
LoopGame ==
  /\ pc = "loop"
  /\ job.next <= Len(staging)
  /\ \E raised \in BOOLEAN :
       job' = [job EXCEPT !.next = @ + 1,
                          !.acc = MergeGame(job.acc, PackedGames(staging)[job.next], ledger,
                                            league, PhaseOf(league), clock, raised)]
  /\ UNCHANGED <<ledger, clock, league, staging, queued, repeated, probe, pc, row_count, col_count, norm>>

\* upsert_lines_strict up to the batch write: the return on an empty queue, or the
\* alignment and the resize
Resize ==
  /\ pc = "loop"
  /\ job.next > Len(staging)
  /\ IF job.acc.queued_ranges = <<>>
     THEN /\ pc' = "done"
          /\ job' = NoJob
          /\ UNCHANGED <<row_count, col_count>>
     ELSE \E q_adj \in {_normalize_pair_alignment(job.acc.queued_ranges)} :
            /\ pc' = "sized"
            /\ job' = [job EXCEPT !.q_adj = q_adj]
            /\ row_count' = grow_rows(compute_max_row_needed(q_adj), row_count)
            /\ col_count' = grow_cols(col_count)
  /\ UNCHANGED <<ledger, clock, league, staging, queued, repeated, probe, norm>>

\* ss.values_batch_update(body); the assert before it and the API fail the run when a
\* range lies outside the grid
Write ==
  /\ pc = "sized"
  /\ IF row_count >= compute_max_row_needed(job.q_adj) /\ col_count >= 18
     THEN /\ ledger' = values_batch_update(ledger, job.q_adj, 1)
          /\ queued' = Ranges(job.q_adj)
          /\ pc' = "done"
     ELSE /\ pc' = "failed"
          /\ UNCHANGED <<ledger, queued>>
  /\ job' = NoJob
  /\ UNCHANGED <<clock, league, staging, repeated, probe, row_count, col_count, norm>>

\* the run raises or the process is killed between two calls, before the batch write
\* is issued: nothing of the run follows
Kill ==
  /\ pc \notin Rest
  /\ pc' = "failed"
  /\ job' = NoJob
  /\ UNCHANGED <<ledger, clock, league, staging, queued, repeated, probe, row_count, col_count, norm>>

NextSteps ==
  \/ \E lg \in Leagues, games \in StepGameLists, now \in StepNows : Begin(lg, games, now)
  \/ DeleteBlock
  \/ ReadExisting
  \/ LoopGame
  \/ Resize
  \/ Write
  \/ Kill

SpecSteps == InitSteps /\ [][NextSteps]_vars

(***************************************************************************)
(* The purge on its own: the start of one run, up to the point where merge *)
(* has read the sheet, over sheets that hold pairs the purge keeps         *)
(***************************************************************************)
MaxSheetPairs == 3

\* the pair merge writes for a fixture in an nfl run on Tue 06:00, its LastUpdated
\* cell (R) set to minute i after midnight
WrittenPair(i) ==
  LET g == [date |-> <<"September", "11">>, time |-> <<"8:15", "PM">>]
      now == At(1, 6, 0)
      m == meta("nfl", PHASE_NFL, now,
                GameValues(g.date, g.time, AwayTeam, HomeTeam, "nfl", PHASE_NFL, now))
      rows == ScrapedRows([date |-> g.date, time |-> g.time,
                           odds |-> [line |-> <<"-3.5">>, ou |-> <<"45.5">>]])
      stamp == fmt(<<i>>)
  IN  << [(BlankNA(rows[1]) \o m) EXCEPT ![18] = stamp],
         [(BlankNA(rows[2]) \o m) EXCEPT ![18] = stamp] >>

\* the same pair with a kickoff text in column L, the column the purge reads:
\* rows not written by this merge (the sheet is shared and open to edits)
PairWithKickoffInL(i, kickoff) ==
  [n \in 1..2 |-> [WrittenPair(i)[n] EXCEPT ![12] = fmt(<<kickoff>>)]]

\* the kinds of pairs on a sheet: as merge writes them (a game key in column L), and
\* with a kickoff of Thu Sep 11 or of Thu Sep 18 in column L
PairKinds == {"key", "thisweek", "nextweek"}

PairOfKind(kind, i) ==
  CASE kind = "key" -> WrittenPair(i)
    [] kind = "thisweek" -> PairWithKickoffInL(i, At(3, 20, 15))
    [] OTHER -> PairWithKickoffInL(i, At(10, 20, 15))

RECURSIVE SheetOf(_, _)
SheetOf(kinds, i) ==
  IF i > Len(kinds) THEN <<>> ELSE PairOfKind(kinds[i], i) \o SheetOf(kinds, i + 1)

\* the header and up to MaxSheetPairs pairs
PurgeSheets ==
  { <<HEADER_AH \o HEADER_IR>> \o SheetOf(kinds, 1) :
      kinds \in UNION { [1..n -> PairKinds] : n \in 0..MaxSheetPairs } }

\* Tue 06:00 of the week of Sep 8 and Tue 13:00 of the week after
PurgeNows == {At(1, 6, 0), At(8, 13, 0)}

PurgeGameLists ==
  { << [date |-> <<"September", "11">>, time |-> <<"TBD">>,
        odds |-> [line |-> <<"N/A">>, ou |-> <<"N/A">>]] >> }

InitPurge ==
  /\ ledger \in PurgeSheets
  /\ clock = 0
  /\ league = "nfl"
  /\ staging = <<>>
  /\ queued = <<>>
  /\ repeated = FALSE
  /\ probe = Evaluate(<<>>, 0)
  /\ pc = "idle"
  /\ job = NoJob
  /\ row_count = NEW_SHEET_ROWS
  /\ col_count = NEW_SHEET_COLS
  /\ norm = NoCall

NextPurge ==
  \/ \E lg \in Leagues, games \in PurgeGameLists, now \in PurgeNows :
       pc = "idle" /\ Begin(lg, games, now)
  \/ DeleteBlock
  \/ ReadExisting

SpecPurge == InitPurge /\ [][NextPurge]_vars

(***************************************************************************)
(* normalize_rows_to_AH on its own: a row list is handed to it and it      *)
(* returns                                                                 *)
(***************************************************************************)
MaxExtraFields == 2

\* a row as the scrapers append it, and a legacy row [logo, name, date, time, line,
\* ou] followed by two more fields
Row8 ==
  << <<"logo", "Jets">>, AwayTeam, Blank, <<"-3.5">>, Blank, <<"45.5">>,
     <<"September", "11">>, <<"8:15", "PM">> >>
Legacy6Plus ==
  << <<"logo", "Jets">>, AwayTeam, <<"September", "11">>, <<"8:15", "PM">>, <<"-3.5">>,
     <<"45.5">>, <<"x">>, Blank >>

\* the fields that may follow: "", " ", None and a text
TailCells == {Blank, Space, NoneCell, <<"x">>}
Tails == UNION { [1..n -> TailCells] : n \in 0..MaxExtraFields }

\* rows of 0 to 8 + MaxExtraFields fields
NormRows ==
  { SubSeq(base, 1, n) \o tail : base \in {Row8, Legacy6Plus}, n \in 0..8, tail \in Tails }

\* row lists: a row alone, after a None, and before a None and a scraped row
NormInputs ==
  { <<>>, << <<>> >> }
    \cup { << <<r>> >> : r \in NormRows }
    \cup { << <<>>, <<r>> >> : r \in NormRows }
    \cup { << <<r>>, <<>>, <<Row8>> >> : r \in NormRows }

InitNorm ==
  /\ ledger = <<HEADER_AH \o HEADER_IR>>
  /\ clock = 0
  /\ league = "nfl"
  /\ staging = <<>>
  /\ queued = <<>>
  /\ repeated = FALSE
  /\ probe = Evaluate(<<>>, 0)
  /\ pc = "idle"
  /\ job = NoJob
  /\ row_count = NEW_SHEET_ROWS
  /\ col_count = NEW_SHEET_COLS
  /\ norm \in { [rows |-> rows, returned |-> FALSE, out |-> <<>>] : rows \in NormInputs }

\* normalize_rows_to_AH(rows) returns
Normalize ==
  /\ ~norm.returned
  /\ norm' = [norm EXCEPT !.returned = TRUE,
                          !.out = normalize_rows_to_AH(SkipNone(norm.rows))]
  /\ UNCHANGED <<ledger, clock, league, staging, queued, repeated, probe, pc, job,
                 row_count, col_count>>

NextNorm == Normalize

SpecNorm == InitNorm /\ [][NextNorm]_vars

(***************************************************************************)
(* Properties                                                              *)
(***************************************************************************)
\* the Locked cell (column P) and the GameKey cell (column L) of the pair at top r
IsLockedPair(grid, r) == grid[r][16] = <<"Y">>
KeyAt(grid, r) == grid[r][12]

\* the pair at top r of grid a is a pair of grid b, all 18 cells of both rows equal
PairKept(a, r, b) ==
  \E r2 \in PairTops(b) : r2 + 1 <= Len(b) /\ b[r2] = a[r] /\ b[r2 + 1] = a[r + 1]

\* what merge computes for scraped game g in a run of league lg at instant now
ValuesOf(g, lg, now) ==
  GameValues(g.date, g.time, AwayTeam, HomeTeam, lg, PhaseOf(lg), now)

\* C1: lock monotonicity across runs. Every entry whose Locked cell is "Y" before a
\* run is still in the ledger after the run, with Locked "Y" and all 18 cells of
\* both rows unchanged.
C1_LockMonotone ==
  [][\A r \in PairTops(ledger) :
       IsLockedPair(ledger, r) => PairKept(ledger, r, ledger')]_vars

\* C2: purge safety. Whatever the instant of the purge, _purge_lines_to_current_week
\* deletes no pair of the ledger whose Locked cell is "Y".
C2_PurgeKeepsLocked ==
  \A now \in Nows :
    now >= clock =>
      \A r \in PairTops(ledger) :
        IsLockedPair(ledger, r) =>
          PairKept(ledger, r, _purge_lines_to_current_week(ledger, now))

KickoffOf(g) == parse_kickoff_local(g.date, g.time)
KeyOf(g) == make_game_key(KickoffOf(g), AwayTeam, HomeTeam)

\* a queued range covers row r or row r + 1
Covers(item, r) == item.range[1] <= r + 1 /\ item.range[2] >= r

\* C4: merge leaves locked entries alone. When a scraped pair's key is the key of a
\* ledger entry whose persisted Locked cell is "Y", the run queues no write over the
\* entry's two rows and all 18 cells of both rows are as before the run.
C4_LockedNotWritten ==
  [][\A r \in PairTops(ledger) :
       (/\ IsLockedPair(ledger, r)
        /\ \E i \in 1..Len(staging') : KeyOf(staging'[i]) = KeyAt(ledger, r))
       => /\ \A j \in 1..Len(queued') : ~Covers(queued'[j], r)
          /\ r + 1 <= Len(ledger')
          /\ ledger'[r] = ledger[r]
          /\ ledger'[r + 1] = ledger[r + 1]]_vars

\* C5: freeze implies lock after the next pass. After a run at an instant now at or
\* past the freeze_at of a scraped game, the ledger holds the game's entry with
\* Locked = "Y", whatever the weekday of the run and the publish gate.
C5_FreezeImpliesLocked ==
  \A i \in 1..Len(staging) :
    LET v == ValuesOf(staging[i], league, clock)
    IN  (v.freeze_at # <<>> /\ clock >= v.freeze_at[1])
        => \E r \in PairTops(ledger) :
             KeyAt(ledger, r) = v.game_key /\ IsLockedPair(ledger, r)

\* C6: the locked flag merge computes for a scraped pair is "Y" exactly when
\* freeze_at is known and now >= freeze_at, whatever publish_window_allows returns.
C6_LockedFlagFreezeOnly ==
  \A i \in 1..Len(staging) :
    LET v == ValuesOf(staging[i], league, clock)
    IN  (v.locked_flag = "Y") <=> (v.freeze_at # <<>> /\ clock >= v.freeze_at[1])

\* C7: the status merge computes for a scraped pair is "locked" whenever
\* now >= freeze_at, otherwise "posted" when the publish gate allows the kickoff and
\* now >= release_at, otherwise "placeholder".
C7_StatusRule ==
  \A i \in 1..Len(staging) :
    LET v == ValuesOf(staging[i], league, clock)
    IN  v.status =
          IF v.freeze_at # <<>> /\ clock >= v.freeze_at[1] THEN "locked"
          ELSE IF v.window_ok /\ v.release_at # <<>> /\ clock >= v.release_at[1] THEN "posted"
          ELSE "placeholder"

\* C8: no duplicate when a kickoff becomes known. When the ledger holds one entry,
\* inserted with an unknown kickoff, and a run of the same league scrapes the same
\* teams with a parseable kickoff of the entry's week, the run matches that entry:
\* it queues no insert, and the ledger holds one entry for the fixture afterwards.
C8_KickoffKnownNoInsert ==
  [][(/\ Len(ledger) = 3
      /\ ledger[2][13] = Blank
      /\ ledger[2][9] = <<league'>>
      /\ \A i \in 1..Len(staging') :
           /\ KickoffOf(staging'[i]) # <<>>
           /\ ValuesOf(staging'[i], league', clock').week_tag = ledger[2][10])
     => /\ \A j \in 1..Len(queued') : queued'[j].kind # "new"
        /\ Len(ledger') = 3]_vars

\* C9: game-key uniqueness. After any sequence of runs no two ledger entries carry
\* the same non-empty value in the GameKey column L.
C9_GameKeyUnique ==
  \A r1, r2 \in PairTops(ledger) :
    (r1 # r2 /\ KeyAt(ledger, r1) # Blank) => KeyAt(ledger, r1) # KeyAt(ledger, r2)

\* C9 witness: the scraped input of the latest run held two pairs that resolve to
\* the same key, and the ledger holds an entry with that key
C9_Witness ==
  /\ Len(staging) >= 2
  /\ KeyOf(staging[1]) = KeyOf(staging[2])
  /\ \E r \in PairTops(ledger) : KeyAt(ledger, r) = KeyOf(staging[1])

\* C10: pair alignment. The ledger is the header followed by whole pairs: every even
\* row r >= 2 is the away row of an entry and row r + 1 its home row, both carrying
\* the same ten metadata cells; every range of the written batch is two rows and
\* starts on an even row.
C10_PairAlignment ==
  /\ Len(ledger) % 2 = 1
  /\ \A r \in PairTops(ledger) :
       /\ ledger[r][2] = AwayTeam
       /\ ledger[r + 1][2] = HomeTeam
       /\ KeyAt(ledger, r) # Blank
       /\ SubSeq(ledger[r], 9, 18) = SubSeq(ledger[r + 1], 9, 18)
  /\ \A j \in 1..Len(queued) :
       /\ queued[j].range[1] % 2 = 0
       /\ queued[j].range[1] >= 2
       /\ queued[j].range[2] = queued[j].range[1] + 1

\* C10 witness: an ncaaf run that repeats the run before it, so over a ledger that
\* held entries, has written a batch of two inserts, and the ledger holds two entries
C10_Witness ==
  /\ league = "ncaaf"
  /\ repeated
  /\ Len(ledger) = 5
  /\ Len(queued) >= 2

\* the texts "AWAY" and "HOME" of a key: the normalized upper-case team names
KeyTeams == normalize_team_for_key(AwayTeam) \o <<"|">> \o normalize_team_for_key(HomeTeam)

\* C11: fallback key format. The game key merge gives a scraped pair is
\* week_tag|AWAY|HOME when the kickoff is unknown (week_tag the pair's week tag) and
\* YYYY-MM-DD|AWAY|HOME when the kickoff is known.
C11_FallbackKeyFormat ==
  \A i \in 1..Len(staging) :
    LET v == ValuesOf(staging[i], league, clock)
    IN  v.game_key =
          IF v.kickoff_dt = <<>>
          THEN <<v.week_tag, "|">> \o KeyTeams
          ELSE <<Ymd(DayOf(v.kickoff_dt[1])), "|">> \o KeyTeams

\* the game keys merge finds on the sheet in a run at instant now: those of the
\* pairs the cleanup and the purge leave
KeysAfterPurge(grid, now) == IndexKeys(get_all_values(AfterPurge(grid, now)))

\* scraped game i of list games matches no entry when merge reaches it: its key is
\* not among the keys on the sheet and no earlier game of the list has it
MatchesNoEntry(games, i, keys) ==
  /\ KeyOf(games[i]) \notin keys
  /\ \A h \in 1..(i - 1) : KeyOf(games[h]) # KeyOf(games[i])

\* C12: placeholder insert. For a scraped pair that matches no existing entry the
\* run queues an insert; if the publish gate is closed for its kickoff, the inserted
\* rows have blank Line (D) and O/U (F) cells and carry the team, date and time
\* cells and the ten metadata cells of the pair.
C12_PlaceholderInsert ==
  [][\A i \in 1..Len(staging') :
       \A v \in {ValuesOf(staging'[i], league', clock')} :
         \A m \in {meta(league', PhaseOf(league'), clock', v)} :
           \/ \E j \in 1..Len(queued') :
                \E r \in {queued'[j].range[1]} :
                  /\ queued'[j].kind = "new"
                  /\ r + 1 <= Len(ledger')
                  /\ KeyAt(ledger', r) = v.game_key
                  /\ ~v.window_ok =>
                       /\ ledger'[r][4] = Blank /\ ledger'[r][6] = Blank
                       /\ ledger'[r + 1][4] = Blank /\ ledger'[r + 1][6] = Blank
                       /\ ledger'[r][2] = AwayTeam /\ ledger'[r + 1][2] = HomeTeam
                       /\ ledger'[r][7] = staging'[i].date
                       /\ ledger'[r + 1][7] = staging'[i].date
                       /\ ledger'[r][8] = staging'[i].time
                       /\ ledger'[r + 1][8] = staging'[i].time
                       /\ SubSeq(ledger'[r], 9, 18) = m
                       /\ SubSeq(ledger'[r + 1], 9, 18) = m
           \/ ~MatchesNoEntry(staging', i, KeysAfterPurge(ledger, clock'))]_vars

\* C12 witness: a run on a Wednesday, the gate closed for the Thursday kickoff, has
\* inserted a pair scraped with a line and an over/under, and its Line cell is blank
C12_Witness ==
  /\ clock = At(2, 13, 0)
  /\ Len(staging) = 1
  /\ staging[1].odds.line = <<"-3.5">>
  /\ queued = <<[range |-> <<2, 3>>, kind |-> "new"]>>
  /\ ledger[2][4] = Blank

\* C13: gate-closed skip. When a scraped pair has the key of an unlocked ledger entry
\* and the publish gate is closed for its kickoff, the run queues no write over the
\* entry and every cell of both rows is the same after the run as before it.
C13_GateClosedSkip ==
  [][\A r \in PairTops(ledger) :
       (/\ ~IsLockedPair(ledger, r)
        /\ \E i \in 1..Len(staging') :
             /\ KeyOf(staging'[i]) = KeyAt(ledger, r)
             /\ ~publish_window_allows(clock', KickoffOf(staging'[i])))
       => /\ \A j \in 1..Len(queued') : ~Covers(queued'[j], r)
          /\ r + 1 <= Len(ledger')
          /\ ledger'[r] = ledger[r]
          /\ ledger'[r + 1] = ledger[r + 1]]_vars

\* the rows merge writes for scraped game g when it publishes the scraped values:
\* the display cells with "N/A" blanked, and the metadata of the run
FreshRows(g, lg, now) ==
  LET rows == normalize_rows_to_AH(ScrapedRows(g))
      m == meta(lg, PhaseOf(lg), now, ValuesOf(g, lg, now))
  IN  << BlankNA(rows[1]) \o m, BlankNA(rows[2]) \o m >>

\* C14: update when the gate is open. When the one scraped pair of a run has the key
\* of an unlocked ledger entry and the publish gate allows its kickoff, the two rows
\* of the entry hold the freshly scraped display, line and over/under values and the
\* metadata of the run afterwards, also before release_at and for an unknown kickoff.
C14_UpdateWhenGateOpen ==
  [][\A r \in PairTops(ledger) :
       (/\ ~IsLockedPair(ledger, r)
        /\ Len(staging') = 1
        /\ KeyOf(staging'[1]) = KeyAt(ledger, r)
        /\ publish_window_allows(clock', KickoffOf(staging'[1])))
       => /\ r + 1 <= Len(ledger')
          /\ <<ledger'[r], ledger'[r + 1]>> = FreshRows(staging'[1], league', clock')]_vars

\* C15: no sentinel leak. In no row that merge has written to the ledger is the Line
\* cell (D) or the O/U cell (F) the literal "N/A".
C15_NoSentinelLeak ==
  \A r \in 2..Len(ledger) :
    ledger[r][4] # <<"N/A">> /\ ledger[r][6] # <<"N/A">>

\* C15 witness: a run on Tuesday 06:00, past release_at with the gate open, has
\* written a pair scraped with "N/A" as line and over/under, and its cells are blank
C15_Witness ==
  /\ clock = At(1, 6, 0)
  /\ Len(staging) = 1
  /\ KickoffOf(staging[1]) # <<>>
  /\ staging[1].odds.line = <<"N/A">>
  /\ staging[1].odds.ou = <<"N/A">>
  /\ ledger[2][17] = <<"posted">>
  /\ ledger[2][4] = Blank
  /\ ledger[3][6] = Blank

\* minutes after midnight of an instant
TimeOfDay(t) == t % DayMinutes

\* instant t is time-of-day hm of weekday dow in the Monday-anchored week of instant k
OnWeekdayOfWeek(t, dow, hm, k) ==
  /\ weekday(t) = dow
  /\ TimeOfDay(t) = hm
  /\ t >= MondayOf(k)
  /\ t < MondayOf(k) + 7 * DayMinutes

\* C16: scheduler mapping. compute_release_freeze gives (unknown, unknown) for an
\* unknown kickoff; for a Thursday or Friday kickoff release = 00:01 and freeze =
\* 12:00 of the Tuesday of the kickoff's Monday-anchored week; for a kickoff on any
\* other weekday release = 00:01 and freeze = 12:00 of the Thursday of that week.
C16_SchedulerMapping ==
  LET rf == probe.release_freeze
  IN  IF probe.kickoff_dt = <<>> THEN rf[1] = <<>> /\ rf[2] = <<>>
      ELSE LET k == probe.kickoff_dt[1]
               dow == IF weekday(k) = 3 \/ weekday(k) = 4 THEN 1 ELSE 3
           IN  /\ rf[1] # <<>> /\ OnWeekdayOfWeek(rf[1][1], dow, 1, k)
               /\ rf[2] # <<>> /\ OnWeekdayOfWeek(rf[2][1], dow, 12 * 60, k)

\* C16 witness: a Friday kickoff has been scheduled, with its freeze on the Tuesday
\* before it
C16_Witness ==
  /\ probe.kickoff_dt = <<At(4, 13, 0)>>
  /\ probe.release_freeze[2] = <<At(1, 12, 0)>>

\* C17: scheduler bounds. For every known kickoff release_at <= freeze_at and
\* freeze_at < (Monday 00:00 of the kickoff's week) + 8 days.
C17_SchedulerBounds ==
  probe.kickoff_dt # <<>> =>
    LET rf == probe.release_freeze
    IN  /\ rf[1] # <<>> /\ rf[2] # <<>>
        /\ rf[1][1] <= rf[2][1]
        /\ rf[2][1] < MondayOf(probe.kickoff_dt[1]) + 8 * DayMinutes

\* C17 witness: a Sunday kickoff has been scheduled, release and freeze on the
\* Thursday of its week
C17_Witness ==
  /\ probe.kickoff_dt = <<At(13, 13, 0)>>
  /\ probe.release_freeze = << <<At(10, 0, 1)>>, <<At(10, 12, 0)>> >>

\* C18: publish gate policy. The gate is open for an unknown kickoff on any day; for
\* a known kickoff it is open exactly when now is a Tuesday and the kickoff's date is
\* the Thursday or Friday of now's week, or now is a Thursday and the kickoff's date
\* lies from the Saturday of now's week through the Monday of the next week.
C18_PublishGatePolicy ==
  IF probe.kickoff_dt = <<>> THEN probe.window_ok
  ELSE LET ahead == DayOf(probe.kickoff_dt[1]) - DayOf(MondayOf(probe.now))
       IN  probe.window_ok <=>
             \/ weekday(probe.now) = 1 /\ ahead \in {3, 4}
             \/ weekday(probe.now) = 3 /\ ahead \in {5, 6, 7}

\* C18 witness: on a Thursday the gate is open for a kickoff on the Monday of the
\* next week
C18_Witness ==
  /\ probe.now = At(3, 13, 0)
  /\ probe.kickoff_dt = <<At(7, 13, 0)>>
  /\ probe.window_ok

\* the Monday 00:00 that opens ISO week wk of ISO year yr: week 1 of 2025 opens on
\* Monday 2024-12-30 (day -252) and 2025 has 52 weeks
IsoWeekStart(yr, wk) == ((yr - 2025) * 52 * 7 - 252 + (wk - 1) * 7) * DayMinutes

\* C19: total week mapping. Every instant gets one (year, week) tag, the 7-day
\* window of the tagged week holds the instant (window_start <= t < window_end), and
\* two instants in different 7-day windows never get the same tag.
C19_TotalWeekMapping ==
  \A lg \in Leagues :
    LET t == IF probe.kickoff_dt = <<>> THEN probe.now ELSE probe.kickoff_dt[1]
        tag == probe.week_tag[lg]
    IN  /\ Len(tag) = 3
        /\ IsoWeekStart(tag[1], tag[3]) <= t
        /\ t < IsoWeekStart(tag[1], tag[3]) + 7 * DayMinutes
        /\ \A t2 \in ProbeInstants \cup YearEndKickoffs :
             _football_week_monday(t2) # _football_week_monday(t)
               => week_tag(<<t2>>, lg, PhaseOf(lg), probe.now) # tag

\* the week tag that is current for league lg at instant now
CurrentWeekTag(lg, now) == week_tag(<<>>, lg, PhaseOf(lg), now)

\* the purge of the claim may delete the pair at top r at instant now: the pair has a
\* game key, its league is tracked and its stored week tag is not the current one
MayPurge(grid, r, now) ==
  /\ KeyAt(grid, r) # Blank
  /\ \E lg \in Leagues : grid[r][9] = <<lg>> /\ grid[r][10] # CurrentWeekTag(lg, now)

\* C20: purge selection. Whatever the instant of the purge, every pair that has an
\* empty game key, an untracked league or the current week tag of its league is still
\* in the ledger after _purge_lines_to_current_week.
C20_PurgeSelection ==
  \A now \in Nows :
    now >= clock =>
      \A r \in PairTops(ledger) :
        ~MayPurge(ledger, r, now) =>
          PairKept(ledger, r, _purge_lines_to_current_week(ledger, now))

\* C21: failure atomicity per league. When a run fails or is killed before its batch
\* write is issued, the ledger is what it was before the run started: the run has
\* deleted, added or changed no row, the cleanup and purge deletions included.
C21_FailureAtomic ==
  [][(pc \notin Rest /\ pc' = "failed") => ledger' = job.before]_vars

\* the last row a queued range takes once its top is on an even row
AlignedLastRow(item) ==
  IF item.range[1] % 2 = 1 THEN item.range[2] + 1 ELSE item.range[2]

\* a step has put into the ledger a row that was not in it
WroteRows ==
  \E r \in 1..Len(ledger') : \A q \in 1..Len(ledger) : ledger[q] # ledger'[r]

\* C22: capacity before write. When upsert_lines_strict issues the batch write the
\* grid has at least as many rows as the highest row of any queued range after the
\* even-row alignment and at least 18 columns; the resize before the write lowers
\* neither the row count nor the column count; and rows are written only once every
\* scraped game of the run has been through the loop, all queued ranges in one batch.
C22_CapacityBeforeWrite ==
  [][/\ pc' = "sized" =>
          /\ \A j \in 1..Len(job'.acc.queued_ranges) :
               row_count' >= AlignedLastRow(job'.acc.queued_ranges[j])
          /\ col_count' >= 18
     /\ (pc = "loop" /\ pc' \in {"sized", "done"}) =>
          /\ row_count' >= row_count
          /\ col_count' >= col_count
     /\ WroteRows =>
          /\ pc = "sized"
          /\ job.next > Len(staging)
          /\ Len(queued') = Len(job.acc.queued_ranges)]_vars

\* C22 witness: the write of a batch of two pairs is about to be issued on a grid of
\* 26 columns whose rows the resize has brought to the 5 the batch needs
C22_Witness ==
  /\ pc = "sized"
  /\ Len(job.q_adj) = 2
  /\ compute_max_row_needed(job.q_adj) = 5
  /\ row_count = 5
  /\ col_count = 26

\* the rows of a list that are not None, in order
GivenRows == SkipNone(norm.rows)

\* every field after the eighth is "", blank or None
ExtrasBlank(r) == \A i \in 9..Len(r) : r[i] \in {Blank, Space, NoneCell}

\* C23: input normalization. normalize_rows_to_AH returns one row of exactly 8 fields
\* for every row of its input that is not None, in the input's order: an 8-field row
\* unchanged, a 6-field row [logo, name, date, time, line, ou] as
\* [logo, name, "", line, "", ou, date, time], a row of more than 8 fields whose
\* extra trailing fields are blank as its first 8 fields.
C23_InputNormalization ==
  norm.returned =>
    /\ Len(norm.out) = Len(GivenRows)
    /\ \A k \in 1..Len(GivenRows) :
         LET r == GivenRows[k]
             o == norm.out[k]
         IN  /\ Len(o) = 8
             /\ Len(r) = 8 => o = r
             /\ Len(r) = 6 => o = <<r[1], r[2], Blank, r[5], Blank, r[6], r[3], r[4]>>
             /\ (Len(r) > 8 /\ ExtrasBlank(r)) => o = SubSeq(r, 1, 8)

\* C23 witness: a list of a legacy 6-field row, a None and an 8-field row has been
\* normalized to two rows
C23_Witness ==
  /\ norm.returned
  /\ Len(norm.rows) = 3
  /\ Len(norm.rows[1][1]) = 6
  /\ norm.rows[1][1][4] = <<"8:15", "PM">>
  /\ Len(norm.out) = 2
  /\ norm.out[1][8] = <<"8:15", "PM">>

\* the pair at top r of the ledger shows scraped game g: its date and time, and its
\* line and over/under or blanks in their place
ShowsGame(r, g) ==
  \A row \in {ledger[r], ledger[r + 1]} :
    /\ row[7] = g.date
    /\ row[8] = g.time
    /\ row[4] \in {Blank, g.odds.line}
    /\ row[6] \in {Blank, g.odds.ou}

\* C24: key collision inside one batch. When two distinct scraped pairs of a run
\* resolve to the same game key, the ledger after the run holds exactly one entry
\* with that key and its cells are those of the pair that comes last in the input.
C24_LastWriteWins ==
  (/\ pc = "done"
   /\ Len(staging) = 2
   /\ staging[1] # staging[2]
   /\ KeyOf(staging[1]) = KeyOf(staging[2]))
  => /\ Cardinality({ r \in PairTops(ledger) : KeyAt(ledger, r) = KeyOf(staging[2]) }) = 1
     /\ \A r \in PairTops(ledger) :
          KeyAt(ledger, r) = KeyOf(staging[2]) => ShowsGame(r, staging[2])

\* the sheet holds an entry of league lg
HoldsEntryOf(existing, lg) ==
  \E r \in PairTops(existing) : KeyAt(existing, r) # Blank /\ existing[r][9] = <<lg>>

\* the blank rows merge leaves between the last row of existing and the first entry
\* a run of league lg appends
SpacerBefore(lg, existing) == first_append_top(lg, existing) - (Len(existing) + 1)

Overlap(a, b) == a.range[1] <= b.range[2] /\ b.range[1] <= a.range[2]

\* the positions of the inserts and of the updates in a batch, in queue order
Inserts(q) == { j \in 1..Len(q) : q[j].kind = "new" }
Updates(q) == { j \in 1..Len(q) : q[j].kind = "upd" }

\* C26: appends never collide. In every run each insert range of the aligned batch
\* starts strictly below the last occupied row merge read after the purge, the
\* insert ranges are pairwise disjoint with consecutive tops 2 apart, and no insert
\* range shares a row with an update range of the same batch.
C26_AppendsNeverCollide ==
  [][\A existing \in {get_all_values(AfterPurge(ledger, clock'))} :
       /\ \A j \in Inserts(queued') : queued'[j].range[1] > Len(existing)
       /\ \A j, k \in Inserts(queued') :
            /\ j # k => ~Overlap(queued'[j], queued'[k])
            /\ (j < k /\ \A h \in Inserts(queued') : ~(j < h /\ h < k))
                 => queued'[k].range[1] = queued'[j].range[1] + 2
       /\ \A j \in Inserts(queued'), k \in Updates(queued') :
            ~Overlap(queued'[j], queued'[k])]_vars

\* the pairs of vals at the tops in the sequence tops, in that order
RECURSIVE PairsAt(_, _, _)
PairsAt(vals, tops, i) ==
  IF i > Len(tops) THEN <<>>
  ELSE <<vals[tops[i]], vals[tops[i] + 1]>> \o PairsAt(vals, tops, i + 1)

\* the header of vals followed by the pairs the purge at instant now does not select,
\* in their order on the sheet
HeaderAndUnselected(vals, now) ==
  <<vals[1]>> \o PairsAt(vals, Ascending(PairTops(vals) \ to_delete_tops(vals, now)), 1)

\* C27: the purge deletes exactly what it selected. When merge reads the ledger to
\* build its index every block of the purge has been deleted, and the ledger it reads
\* is the header followed by the pairs the purge did not select, whole, in their
\* original order and with their cells unchanged.
C27_PurgeDeletesSelected ==
  pc = "loop" =>
    /\ job.blocks = <<>>
    /\ job.existing = ledger
    /\ job.existing = HeaderAndUnselected(job.before, clock)

\* C27 witness: merge has read a ledger of one pair, what the purge left of a sheet of
\* three pairs of which it selected the first and the last, in two blocks
C27_Witness ==
  /\ pc = "loop"
  /\ Len(job.before) = 7
  /\ to_delete_tops(job.before, clock) = {2, 6}
  /\ Len(job.existing) = 3
  /\ job.existing[2] = job.before[4]

\* the instants 00:00, 00:01 and 13:00 of the seven days before and the seven days
\* after the day of kickoff k
InstantsAround(k) ==
  { At(d, hm[1], hm[2]) :
      d \in (DayOf(k) - 7)..(DayOf(k) + 7), hm \in {<<0, 0>>, <<0, 1>>, <<13, 0>>} }

\* a run at instant now posts a game with kickoff k: the publish gate is open, the
\* release has come, and merge gives the entry status posted or locked with its lines
PostsAt(now, k) ==
  LET rf == compute_release_freeze(<<k>>)
      window_ok == publish_window_allows(now, <<k>>)
  IN  /\ window_ok
      /\ rf[1] # <<>> /\ now >= rf[1][1]
      /\ status(window_ok, rf[1], rf[2], now) \in {"posted", "locked"}
      /\ allow_lines(window_ok, rf[1], rf[2], now)

\* C28: every permitted kickoff can be posted. For every known kickoff on a Thursday,
\* Friday, Saturday, Sunday or Monday there is an instant at which the publish gate
\* allows it and its release_at has passed, so that a run then gives it status posted
\* or locked with its line data; a Monday kickoff included.
C28_PermittedCanBePosted ==
  (probe.kickoff_dt # <<>> /\ weekday(probe.kickoff_dt[1]) \in {3, 4, 5, 6, 0})
    => \E now \in InstantsAround(probe.kickoff_dt[1]) : PostsAt(now, probe.kickoff_dt[1])

\* the place of a Status cell on the way placeholder -> posted -> locked
StatusRank(cell) ==
  CASE cell = <<"placeholder">> -> 0
    [] cell = <<"posted">> -> 1
    [] cell = <<"locked">> -> 2
    [] OTHER -> 0

\* C29: status never moves backwards. Over runs with non-decreasing now, the Status
\* cell of every game key whose entry is in the ledger before and after a run stays
\* or moves along placeholder -> posted -> locked, and in every pair of the ledger
\* Locked is "Y" exactly when Status is "locked".
C29_StatusForward ==
  [][/\ \A r \in PairTops(ledger), r2 \in PairTops(ledger') :
          (KeyAt(ledger, r) # Blank /\ KeyAt(ledger', r2) = KeyAt(ledger, r))
            => StatusRank(ledger'[r2][17]) >= StatusRank(ledger[r][17])
     /\ \A r2 \in PairTops(ledger') :
          (ledger'[r2][16] = <<"Y">>) <=> (ledger'[r2][17] = <<"locked">>)]_vars

====
